---- MODULE Spec2Model ----
(***************************************************************************)
(* A model of the Todoist command-line client.                             *)
(*                                                                         *)
(* Two programs live in the repository and both are modelled:              *)
(*   "script" : src/main.py, the single-file script (1Password lookup,     *)
(*              then create / create_reset_task / help / list);            *)
(*   "cli"    : the todoist_cli package (AuthManager, TodoistManager,      *)
(*              the Command classes and CommandRegistry).  The package's   *)
(*              entry point is not part of the sources; the three steps    *)
(*              that wire it (CliCheckToken, CliNoCommand, the exit code   *)
(*              after execute_command) follow the specification.           *)
(*                                                                         *)
(* One behaviour is one process invocation.  The environment variable and  *)
(* the token path are chosen in Init; the outcome of the `op` subprocess,  *)
(* the argument vector, the outcome of each remote call and the line       *)
(* typed on standard input are chosen by the step that reads them.         *)
(*                                                                         *)
(* Strings the code transforms (strip, lower, truthiness) are sequences    *)
(* of one-character strings; strings the code only passes on are TLA+      *)
(* strings.                                                                *)
(***************************************************************************)
EXTENDS Integers, Sequences, FiniteSets, TLC

VARIABLES
    program,      \* "script" or "cli"
    environ,      \* os.environ.get("TODOIST_API_TOKEN"): an Optional string
    token_path,   \* AuthManager.token_path (a character sequence)
    opOutcome,    \* what subprocess.run(["op", "read", ...]) did, once run
    argv,         \* sys.argv[1:], once read
    pc,           \* position of the process
    api_token,    \* the resolved token (an Optional string)
    lookups,      \* number of `op read` subprocesses started
    out,          \* what was printed, in order
    world,        \* the remote service: calls received, tasks held, next id
    stdinLines,   \* lines read from standard input, in order
    commands,     \* CommandRegistry.commands: name -> Command instance
    registered,   \* the register_command calls made so far, in order
    handler,      \* the Command class whose execute() ran ("none" if none)
    raised,       \* the exception that left the last call ("none" if none)
    exitCode,     \* the process's exit status (-1 while it runs)
    today,        \* datetime.now().date() as parse_due_date reads it
    due_string,   \* the argument of parse_due_date
    due,          \* what parse_due_date returned (NotParsed before the call)
    config_file,  \* the file at config_path: missing, malformed or a JSON object
    config,       \* the dictionary load_config returned last
    saves,        \* what each save_config call returned, in order
    file_before   \* the file as the last load_config found it

\* The state of the helper functions, which no step of a command touches.
dueVars == << today, due_string, due >>
configVars == << config_file, config, saves, file_before >>
helperVars == << dueVars, configVars >>

vars == << helperVars, registered, program, environ, token_path, opOutcome, argv, pc,
           api_token, lookups, out, world, stdinLines, commands, handler,
           raised, exitCode >>

----------------------------------------------------------------------------
(* Bounds *)

\* Longest argument vector after the command name.
MaxArgs == 3

\* The identifier the remote service gives the first task it creates.
FirstId == 1

\* Most members written in a configuration file.
MaxEntries == 2

\* Most times save_config(load_config(path), path) is applied to one file.
MaxRounds == 2

----------------------------------------------------------------------------
(* Python values *)

\* Optional[str]: None, or a string (possibly empty).
None == [some |-> FALSE, v |-> << >>]
Some(s) == [some |-> TRUE, v |-> s]

\* Python truthiness of an Optional[str]: None and "" are falsy.
Truthy(x) == x.some /\ Len(x.v) > 0

Whitespace == {" ", "\n", "\t"}

RECURSIVE LStrip(_)
LStrip(s) ==
    IF s # << >> /\ Head(s) \in Whitespace THEN LStrip(Tail(s)) ELSE s

RECURSIVE RStrip(_)
RStrip(s) ==
    IF s # << >> /\ s[Len(s)] \in Whitespace
    THEN RStrip(SubSeq(s, 1, Len(s) - 1))
    ELSE s

\* str.strip()
Strip(s) == RStrip(LStrip(s))

UpperLetters == << "A", "B", "C", "D", "E", "F", "G", "H", "I", "J", "K", "L", "M",
                   "N", "O", "P", "Q", "R", "S", "T", "U", "V", "W", "X", "Y", "Z" >>
LowerLetters == << "a", "b", "c", "d", "e", "f", "g", "h", "i", "j", "k", "l", "m",
                   "n", "o", "p", "q", "r", "s", "t", "u", "v", "w", "x", "y", "z" >>

\* str.lower() on one character.
LowerChar(c) ==
    IF \E i \in DOMAIN UpperLetters : UpperLetters[i] = c
    THEN LowerLetters[CHOOSE i \in DOMAIN UpperLetters : UpperLetters[i] = c]
    ELSE c

\* str.lower()
Lower(s) == [i \in 1..Len(s) |-> LowerChar(s[i])]

----------------------------------------------------------------------------
(* The environment of one invocation *)

\* Values of TODOIST_API_TOKEN: unset, set to "", set to a token.
EnvValues == {None, Some(<< >>), Some(<<"e", "1">>)}

\* Values of token_path: empty, or the default 1Password reference.
DefaultTokenPath == <<"o", "p">>
TokenPaths == {<< >>, DefaultTokenPath}

\* What `op read` can do: exit 0 printing a token (with the trailing newline
\* the tool prints), exit 0 printing only white space, exit non-zero (not
\* signed in, no such item), or not exist at all.
NotRun == [kind |-> "notrun", stdout |-> << >>]
OpOutcomes ==
    { [kind |-> "ok", stdout |-> <<"s", "1", "\n">>],
      [kind |-> "ok", stdout |-> <<"\n">>],
      [kind |-> "nonzero", stdout |-> << >>],
      [kind |-> "notfound", stdout |-> << >>] }

----------------------------------------------------------------------------
(* Output *)

\* One printed line: its fixed text and the value interpolated into it.
Say(text, arg) == [text |-> text, arg |-> arg]

\* A printed line with nothing interpolated.
Msg(text) == Say(text, << >>)

\* The text was printed.
Printed(text) == \E i \in DOMAIN out : out[i].text = text

Msgs(texts) == [i \in 1..Len(texts) |-> Msg(texts[i])]

----------------------------------------------------------------------------
(* todoist_cli/auth.py *)

MsgEnvToken      == "Using API token from environment variable"
MsgOpToken       == "Retrieved API token from 1Password"
MsgOpError       == "Error retrieving API token from 1Password"
MsgOpHint        == "Make sure 1Password CLI is installed and you're signed in."
MsgOpUnexpected  == "Unexpected error accessing 1Password"

\* self.env_var_name = "TODOIST_API_TOKEN"
EnvVarName ==
    << "T", "O", "D", "O", "I", "S", "T", "_", "A", "P", "I", "_",
       "T", "O", "K", "E", "N" >>

\* The binary subprocess.run starts; a FileNotFoundError names it.
OpBinary == <<"o", "p">>

\* What a resolver hands back: the token, what it printed, how many
\* subprocesses it started, and the exception that left it.
Resolved(token, printed, n, exc) ==
    [token |-> token, out |-> printed, lookups |-> n, raised |-> exc]

\* Mutant: the diagnostic shows the token it found.
GetTokenFromEnv_PrintsToken(env) ==
    IF Truthy(env)
    THEN Resolved(env, <<Say(MsgEnvToken, env.v)>>, 0, "none")
    ELSE Resolved(None, << >>, 0, "none")

\* AuthManager._get_token_from_env: the line printed interpolates the
\* variable's name.
GetTokenFromEnv(env) ==
    IF Truthy(env)
    THEN Resolved(env, <<Say(MsgEnvToken, EnvVarName)>>, 0, "none")
    ELSE Resolved(None, << >>, 0, "none")

\* AuthManager._get_token_from_1password: every exception is caught.  The
\* lines printed on failure interpolate the exception: a
\* CalledProcessError shows the command (with token_path) and its exit
\* status, a FileNotFoundError the binary.
GetTokenFrom1Password(path, outcome) ==
    CASE outcome.kind = "ok" ->
            Resolved(Some(Strip(outcome.stdout)), <<Msg(MsgOpToken)>>, 1,
                     "none")
      [] outcome.kind = "nonzero" ->
            Resolved(None, <<Say(MsgOpError, path), Msg(MsgOpHint)>>, 1,
                     "none")
      [] OTHER ->
            Resolved(None, <<Say(MsgOpUnexpected, OpBinary)>>, 1, "none")

\* Mutant: the secret store is asked first, the environment only after it.
GetApiToken_StoreFirst(env, path, outcome) ==
    LET p == GetTokenFrom1Password(path, outcome)
        e == GetTokenFromEnv(env)
    IN  IF Len(path) > 0 /\ Truthy(p.token)
        THEN p
        ELSE IF Len(path) > 0
             THEN Resolved(e.token, p.out \o e.out, p.lookups, "none")
             ELSE e

\* Mutant: the secret store is asked even when token_path is empty.
GetApiToken_AlwaysLookup(env, path, outcome) ==
    LET e == GetTokenFromEnv(env)
        p == GetTokenFrom1Password(path, outcome)
    IN  IF Truthy(e.token)
        THEN e
        ELSE Resolved(IF Truthy(p.token) THEN p.token ELSE None,
                      e.out \o p.out, p.lookups, "none")

\* AuthManager.get_api_token
GetApiToken(env, path, outcome) ==
    LET e == GetTokenFromEnv(env)
    IN  IF Truthy(e.token)
        THEN e
        ELSE IF Len(path) > 0
             THEN LET p == GetTokenFrom1Password(path, outcome)
                  IN  Resolved(IF Truthy(p.token) THEN p.token ELSE None,
                               e.out \o p.out, p.lookups, "none")
             ELSE Resolved(None, e.out, 0, "none")

----------------------------------------------------------------------------
(* main.py: the script's own resolver *)

\* get_api_token (main.py): only CalledProcessError is caught; a missing
\* `op` binary raises FileNotFoundError, which leaves the function.
ScriptResolve(outcome) ==
    CASE outcome.kind = "ok" ->
            Resolved(Some(Strip(outcome.stdout)), << >>, 1, "none")
      [] outcome.kind = "nonzero" ->
            Resolved(None, <<Say(MsgOpError, DefaultTokenPath), Msg(MsgOpHint)>>,
                     1, "none")
      [] OTHER ->
            Resolved(None, << >>, 1, "FileNotFoundError")

----------------------------------------------------------------------------
(* The remote service, as reached through the todoist_api_python client *)

\* One remote call as the service receives it, and whether the service
\* carried it out.  content / task_id are "" and parent_id / priority are
\* 0 when the call does not carry them.
Call(op, content, parent_id, task_id, priority, ok) ==
    [op |-> op, content |-> content, parent_id |-> parent_id,
     task_id |-> task_id, priority |-> priority, filters |-> {}, ok |-> ok]

NewWorld(id) ==
    [calls |-> << >>, tasks |-> {}, nextId |-> id, closed |-> {},
     deleted |-> {}, updated |-> {}]

\* What a client method hands back: the service afterwards, the exception
\* that left the method, and the identifier of the task returned (0: none).
Outcome(w, exc, id) == [world |-> w, raised |-> exc, id |-> id]

Received(w, call) == [w EXCEPT !.calls = Append(@, call)]

\* TodoistAPI.add_task: on success the service holds a new task under a
\* fresh identifier and returns it; on failure it holds nothing new.
SdkAddTask(w, content, parent_id, priority, ok) ==
    LET w1 == Received(w, Call("add_task", content, parent_id, "", priority, ok))
    IN  IF ok
        THEN Outcome([w1 EXCEPT
                        !.tasks = @ \cup {[id |-> w.nextId, content |-> content,
                                           parent_id |-> parent_id]},
                        !.nextId = @ + 1],
                     "none", w.nextId)
        ELSE Outcome(w1, "Exception", 0)

\* TodoistAPI.get_tasks(**filters): filters is the set of keyword arguments.
SdkGetTasks(w, filters, ok) ==
    Outcome(Received(w, [Call("get_tasks", "", 0, "", 0, ok)
                            EXCEPT !.filters = filters]),
            IF ok THEN "none" ELSE "Exception", 0)

\* TodoistAPI.get_tasks() / get_projects() / get_labels()
SdkList(w, op, ok) ==
    Outcome(Received(w, Call(op, "", 0, "", 0, ok)),
            IF ok THEN "none" ELSE "Exception", 0)

\* TodoistAPI.update_task
SdkUpdateTask(w, task_id, ok) ==
    LET w1 == Received(w, Call("update_task", "", 0, task_id, 0, ok))
    IN  IF ok
        THEN Outcome([w1 EXCEPT !.updated = @ \cup {task_id}], "none", 0)
        ELSE Outcome(w1, "Exception", 0)

\* TodoistAPI.close_task
SdkCloseTask(w, task_id, ok) ==
    LET w1 == Received(w, Call("close_task", "", 0, task_id, 0, ok))
    IN  IF ok
        THEN Outcome([w1 EXCEPT !.closed = @ \cup {task_id}], "none", 0)
        ELSE Outcome(w1, "Exception", 0)

\* TodoistAPI.delete_task
SdkDeleteTask(w, task_id, ok) ==
    LET w1 == Received(w, Call("delete_task", "", 0, task_id, 0, ok))
    IN  IF ok
        THEN Outcome([w1 EXCEPT !.deleted = @ \cup {task_id}], "none", 0)
        ELSE Outcome(w1, "Exception", 0)

----------------------------------------------------------------------------
(* todoist_cli/api.py: TodoistManager.  Each method forwards one call, and *)
(* on an exception logs it and re-raises it.  (The log stream is not part  *)
(* of the model.)                                                          *)

\* TodoistManager.get_tasks(**filters)
GetTasks(w, filters, ok) == SdkGetTasks(w, filters, ok)

\* TodoistManager.add_task
AddTask(w, content, parent_id, priority, ok) ==
    SdkAddTask(w, content, parent_id, priority, ok)

\* TodoistManager.update_task
UpdateTask(w, task_id, ok) == SdkUpdateTask(w, task_id, ok)

\* Mutant: complete_task logs the error and returns instead of re-raising.
CompleteTask_Swallow(w, task_id, ok) ==
    [SdkCloseTask(w, task_id, ok) EXCEPT !.raised = "none"]

\* TodoistManager.complete_task
CompleteTask(w, task_id, ok) == SdkCloseTask(w, task_id, ok)

\* TodoistManager.delete_task
DeleteTask(w, task_id, ok) == SdkDeleteTask(w, task_id, ok)

\* TodoistManager.get_projects
GetProjects(w, ok) == SdkList(w, "get_projects", ok)

\* TodoistManager.get_labels
GetLabels(w, ok) == SdkList(w, "get_labels", ok)

\* A variant that goes on to the remaining subtasks after a failure and
\* raises at the end.
RECURSIVE AddSubtasks_KeepGoing(_, _, _, _, _)
AddSubtasks_KeepGoing(w, subtasks, parent_id, k, failAt) ==
    IF subtasks = << >>
    THEN Outcome(w, "none", parent_id)
    ELSE LET r == AddTask(w, Head(subtasks), parent_id, 0, failAt # k)
             rest == AddSubtasks_KeepGoing(r.world, Tail(subtasks), parent_id,
                                           k + 1, failAt)
         IN  IF r.raised # "none"
             THEN Outcome(rest.world, r.raised, 0)
             ELSE rest

\* The loop of create_task_with_subtasks: one add_task per subtask, in
\* order, each under parent_id; the first exception leaves the loop.
\* k numbers the call about to be made (the parent's was call 1); failAt
\* is the call the service fails (0: none).
RECURSIVE AddSubtasks(_, _, _, _, _)
AddSubtasks(w, subtasks, parent_id, k, failAt) ==
    IF subtasks = << >>
    THEN Outcome(w, "none", parent_id)
    ELSE LET r == AddTask(w, Head(subtasks), parent_id, 0, failAt # k)
         IN  IF r.raised # "none"
             THEN Outcome(r.world, r.raised, 0)
             ELSE AddSubtasks(r.world, Tail(subtasks), parent_id, k + 1, failAt)

\* Mutant: the subtasks are created before the parent, with no parent_id.
CreateTaskWithSubtasks_SubtasksFirst(w, content, subtasks, priority, failAt) ==
    LET s == AddSubtasks(w, subtasks, 0, 1, failAt)
    IN  IF s.raised # "none"
        THEN s
        ELSE AddTask(s.world, content, 0, priority, failAt # Len(subtasks) + 1)

\* Mutant: a failed subtask is compensated by deleting the parent.
CreateTaskWithSubtasks_Rollback(w, content, subtasks, priority, failAt) ==
    LET p == AddTask(w, content, 0, priority, failAt # 1)
        s == AddSubtasks(p.world, subtasks, p.id, 2, failAt)
    IN  IF p.raised # "none"
        THEN p
        ELSE IF s.raised # "none"
             THEN Outcome(SdkDeleteTask(s.world, "parent", TRUE).world,
                          s.raised, 0)
             ELSE s

\* TodoistManager.create_task_with_subtasks
CreateTaskWithSubtasks(w, content, subtasks, priority, failAt) ==
    LET p == AddTask(w, content, 0, priority, failAt # 1)
    IN  IF p.raised # "none"
        THEN p
        ELSE IF subtasks # << >>
             THEN AddSubtasks(p.world, subtasks, p.id, 2, failAt)
             ELSE p

----------------------------------------------------------------------------
(* todoist_cli/api.py: the helper parse_due_date.  A date is a record of   *)
(* year, month and day, as datetime.date holds it; the years are within    *)
(* date.min..date.max - 1, where adding a day cannot overflow.             *)

Years == {2000, 2023, 2024, 2100}

IsLeap(y) == (y % 4 = 0 /\ y % 100 # 0) \/ y % 400 = 0

DaysInMonth(y, m) ==
    IF m = 2 THEN (IF IsLeap(y) THEN 29 ELSE 28)
    ELSE IF m \in {4, 6, 9, 11} THEN 30 ELSE 31

ValidDate(d) ==
    /\ d.year \in 1..9999
    /\ d.month \in 1..12
    /\ d.day \in 1..DaysInMonth(d.year, d.month)

\* The values datetime.now().date() can take.
Dates ==
    { d \in [year : Years, month : 1..12, day : 1..31] : ValidDate(d) }

\* date + timedelta(days=1)
AddOneDay(d) ==
    IF d.day < DaysInMonth(d.year, d.month)
    THEN [d EXCEPT !.day = d.day + 1]
    ELSE IF d.month < 12
    THEN [d EXCEPT !.month = d.month + 1, !.day = 1]
    ELSE [year |-> d.year + 1, month |-> 1, day |-> 1]

DigitChars == << "0", "1", "2", "3", "4", "5", "6", "7", "8", "9" >>

\* "%0<width>d" % n
RECURSIVE ZeroPadded(_, _)
ZeroPadded(n, width) ==
    IF width = 0 THEN << >>
    ELSE Append(ZeroPadded(n \div 10, width - 1), DigitChars[(n % 10) + 1])

\* date.isoformat(): YYYY-MM-DD
IsoFormat(d) ==
    ZeroPadded(d.year, 4) \o <<"-">> \o ZeroPadded(d.month, 2)
        \o <<"-">> \o ZeroPadded(d.day, 2)

StrToday == << "t", "o", "d", "a", "y" >>
StrTomorrow == << "t", "o", "m", "o", "r", "r", "o", "w" >>

\* The due strings a caller passes.
DueStrings ==
    { StrToday, StrTomorrow,
      << "T", "o", "d", "a", "y" >>,
      << "T", "O", "D", "A", "Y" >>,
      << "T", "o", "m", "o", "r", "r", "o", "w" >>,
      << "t", "O", "M", "O", "R", "R", "O", "W" >>,
      << "n", "e", "x", "t", " ", "f", "r", "i", "d", "a", "y" >>,
      << >>,
      << " ", "t", "o", "d", "a", "y" >>,
      << "t", "o", "d", "a", "y", "s" >>,
      << "2", "0", "2", "4", "-", "0", "2", "-", "2", "9" >>,
      << "n", "o", "w" >> }

\* A variant that compares the string as given.
ParseDueDate_CaseSensitive(now, s) ==
    IF s = StrToday THEN [date |-> IsoFormat(now)]
    ELSE IF s = StrTomorrow THEN [date |-> IsoFormat(AddOneDay(now))]
    ELSE [date |-> s]

\* TodoistManager.parse_due_date(due_string), with datetime.now().date() = now
ParseDueDate(now, s) ==
    IF Lower(s) = StrToday THEN [date |-> IsoFormat(now)]
    ELSE IF Lower(s) = StrTomorrow THEN [date |-> IsoFormat(AddOneDay(now))]
    ELSE [date |-> s]

----------------------------------------------------------------------------
(* todoist_cli/utils.py: load_config and save_config.                      *)
(*                                                                         *)
(* A file holding a JSON object is the sequence of its members as written  *)
(* (key and value literal, in order, a key possibly twice) and its layout; *)
(* a Python dictionary is the sequence of its items in insertion order,    *)
(* each key once.  json.load and json.dump convert between the two.        *)

\* Python values a configuration holds: the type and the repr.
PyNone == [type |-> "NoneType", repr |-> "None"]
PyTrue == [type |-> "bool", repr |-> "True"]
PyFalse == [type |-> "bool", repr |-> "False"]
PyInt(digits) == [type |-> "int", repr |-> digits]
PyFloat(text) == [type |-> "float", repr |-> text]
PyStr(text) == [type |-> "str", repr |-> text]

\* default_config
DefaultConfig ==
    << [key |-> "token_path", value |-> PyStr("op://Private/Todoist/token")],
       [key |-> "default_project", value |-> PyNone],
       [key |-> "default_priority", value |-> PyInt("1")],
       [key |-> "use_colors", value |-> PyTrue],
       [key |-> "verbose", value |-> PyFalse] >>

\* json: the value a literal decodes to.
JsonDecode(literal) ==
    CASE literal = "null" -> PyNone
      [] literal = "true" -> PyTrue
      [] literal = "false" -> PyFalse
      [] literal = "1" -> PyInt("1")
      [] literal = "4" -> PyInt("4")
      [] literal = "1e0" -> PyFloat("1.0")
      [] literal = "1.0" -> PyFloat("1.0")
      [] literal = "\"A\"" -> PyStr("A")
      [] literal = "\"\\u0041\"" -> PyStr("A")
      [] literal = "\"\\u00e9\"" -> PyStr("e-acute")
      [] literal = "\"e-acute\"" -> PyStr("e-acute")
      [] literal = "\"op://Private/Todoist/token\""
           -> PyStr("op://Private/Todoist/token")

\* json: the literal a value is encoded as (ensure_ascii escapes the
\* accented letter, written e-acute here).
JsonEncode(value) ==
    CASE value = PyNone -> "null"
      [] value = PyTrue -> "true"
      [] value = PyFalse -> "false"
      [] value = PyInt("1") -> "1"
      [] value = PyInt("4") -> "4"
      [] value = PyFloat("1.0") -> "1.0"
      [] value = PyStr("A") -> "\"A\""
      [] value = PyStr("e-acute") -> "\"\\u00e9\""
      [] value = PyStr("op://Private/Todoist/token")
           -> "\"op://Private/Todoist/token\""

\* The file at config_path.
Missing == [kind |-> "missing", layout |-> "none", members |-> << >>]
Malformed == [kind |-> "malformed", layout |-> "text", members |-> << >>]
\* What open(path, 'w') followed by a failed write leaves.
Truncated == [kind |-> "malformed", layout |-> "truncated", members |-> << >>]
ObjectFile(layout, members) ==
    [kind |-> "object", layout |-> layout, members |-> members]

\* The keys and the value literals a user writes.
FileKeys == {"token_path", "default_priority", "extra"}
FileLiterals == {"null", "true", "4", "1e0", "\"\\u0041\"", "\"e-acute\""}
FileLayouts == {"compact", "indent2"}

ConfigFiles ==
    {Missing, Malformed} \cup
    { ObjectFile(l, m) :
        l \in FileLayouts,
        m \in UNION { [1..n -> [key : FileKeys, literal : FileLiterals]]
                        : n \in 0..MaxEntries } }

HasKey(d, k) == \E i \in DOMAIN d : d[i].key = k

\* d[k] = v
DictSet(d, k, v) ==
    IF HasKey(d, k)
    THEN [i \in DOMAIN d |-> IF d[i].key = k THEN [key |-> k, value |-> v] ELSE d[i]]
    ELSE Append(d, [key |-> k, value |-> v])

\* d.update(other)
RECURSIVE DictUpdate(_, _)
DictUpdate(d, other) ==
    IF other = << >> THEN d
    ELSE DictUpdate(DictSet(d, Head(other).key, Head(other).value), Tail(other))

\* json.load(f): the dictionary, or JSONDecodeError.
JsonLoad(file) ==
    IF file.kind = "object"
    THEN [ok |-> TRUE,
          value |-> DictUpdate(<< >>,
                       [i \in DOMAIN file.members |->
                           [key |-> file.members[i].key,
                            value |-> JsonDecode(file.members[i].literal)]])]
    ELSE [ok |-> FALSE, value |-> << >>]

\* json.dump(config, f, indent=2)
JsonDump(d) ==
    ObjectFile("indent2",
               [i \in DOMAIN d |->
                   [key |-> d[i].key, literal |-> JsonEncode(d[i].value)]])

\* load_config(config_path)
LoadConfig(file) ==
    IF file.kind = "missing" THEN DefaultConfig
    ELSE LET loaded == JsonLoad(file)
         IN  IF loaded.ok THEN DictUpdate(DefaultConfig, loaded.value)
             ELSE DefaultConfig

\* What the file system does with the write.
SaveOutcomes == {"written", "open_failed", "write_failed"}

\* A variant that opens the file for appending.
SaveConfig_Append(file, d, outcome) ==
    CASE outcome = "written" ->
           [file |-> IF file.kind = "missing" THEN JsonDump(d)
                     ELSE [kind |-> "malformed", layout |-> "appended",
                           members |-> file.members \o JsonDump(d).members],
            ret |-> TRUE]
      [] outcome = "open_failed" -> [file |-> file, ret |-> FALSE]
      [] outcome = "write_failed" -> [file |-> Truncated, ret |-> FALSE]

\* save_config(config, config_path): the file afterwards and the value
\* returned.
SaveConfig(file, d, outcome) ==
    CASE outcome = "written" -> [file |-> JsonDump(d), ret |-> TRUE]
      [] outcome = "open_failed" -> [file |-> file, ret |-> FALSE]
      [] outcome = "write_failed" -> [file |-> Truncated, ret |-> FALSE]

----------------------------------------------------------------------------
(* The helpers before any call *)

\* parse_due_date has not been called.
NotParsed == [date |-> << >>]

DueIdle ==
    /\ today = [year |-> 2024, month |-> 1, day |-> 1]
    /\ due_string = << >>
    /\ due = NotParsed

ConfigIdle ==
    /\ config_file = Missing
    /\ config = << >>
    /\ saves = << >>
    /\ file_before = Missing

HelpersIdle == DueIdle /\ ConfigIdle

----------------------------------------------------------------------------
(* Argument vectors, and argparse as the Command classes use it *)

\* The tokens an argument vector is built from: a bare word, options with
\* their value attached (--opt=value), an option waiting for its value,
\* a boolean flag, a priority outside the choices, an unknown flag.
ArgTokens ==
    {"t1", "--subtask=A", "--subtask=B", "--subtask",
     "--priority=4", "--priority=5", "--force", "--bogus"}

\* The option a token names ("" for a positional word).
OptName(t) ==
    CASE t \in {"--subtask=A", "--subtask=B", "--subtask"} -> "--subtask"
      [] t \in {"--priority=4", "--priority=5"} -> "--priority"
      [] t = "--force" -> "--force"
      [] t = "--bogus" -> "--bogus"
      [] OTHER -> ""

IsOption(t) == OptName(t) # ""

\* The value attached to an option token ("" when none is attached).
InlineValue(t) ==
    CASE t = "--subtask=A" -> "A"
      [] t = "--subtask=B" -> "B"
      [] t = "--priority=4" -> "4"
      [] t = "--priority=5" -> "5"
      [] OTHER -> ""

\* int(value); -1 stands for the ValueError of a non-number.
IntOf(v) ==
    CASE v = "4" -> 4
      [] v = "5" -> 5
      [] OTHER -> -1

\* choices=[1, 2, 3, 4]
PriorityChoices == {1, 2, 3, 4}

\* The parsers' schemas: number of positionals, store_true flags, options
\* that take a value.
ListSchema ==
    [npos |-> 0, flags |-> {"--completed"},
     valued |-> {"--project", "--label", "--priority", "--due"}]
CreateSchema ==
    [npos |-> 1, flags |-> {},
     valued |-> {"--project", "--priority", "--due", "--label", "--subtask"}]
CompleteSchema == [npos |-> 1, flags |-> {}, valued |-> {}]
DeleteSchema == [npos |-> 1, flags |-> {"--force"}, valued |-> {}]

\* The namespace parse_args builds; ok = FALSE is parser.error(): the usage
\* text on stderr and SystemExit(2).  priority 0 and subtask << >> are None.
EmptyNamespace ==
    [ok |-> TRUE, pos |-> << >>, force |-> FALSE, priority |-> 0,
     subtask |-> << >>]
ParseError == [EmptyNamespace EXCEPT !.ok = FALSE]

\* Storing one option value into the namespace.
Store(ns, name, value) ==
    CASE name = "--priority" ->
            IF IntOf(value) \in PriorityChoices
            THEN [ns EXCEPT !.priority = IntOf(value)]
            ELSE ParseError
      [] name = "--subtask" -> [ns EXCEPT !.subtask = Append(@, value)]
      [] OTHER -> ns

RECURSIVE ParseFrom(_, _, _, _)
ParseFrom(schema, args, i, ns) ==
    IF ~ns.ok THEN ParseError
    ELSE IF i > Len(args)
    THEN IF Len(ns.pos) = schema.npos THEN ns ELSE ParseError
    ELSE LET t == args[i]
             name == OptName(t)
         IN  IF ~IsOption(t)
             THEN ParseFrom(schema, args, i + 1,
                            [ns EXCEPT !.pos = Append(@, t)])
             ELSE IF name \in schema.flags
             THEN IF InlineValue(t) # ""
                  THEN ParseError
                  ELSE ParseFrom(schema, args, i + 1,
                                 [ns EXCEPT !.force = @ \/ name = "--force"])
             ELSE IF name \in schema.valued
             THEN IF InlineValue(t) # ""
                  THEN ParseFrom(schema, args, i + 1,
                                 Store(ns, name, InlineValue(t)))
                  ELSE IF i + 1 <= Len(args) /\ ~IsOption(args[i + 1])
                  THEN ParseFrom(schema, args, i + 2,
                                 Store(ns, name, args[i + 1]))
                  ELSE ParseError
             ELSE ParseError

\* parser.parse_args(args)
ParseArgs(schema, args) == ParseFrom(schema, args, 1, EmptyNamespace)

----------------------------------------------------------------------------
(* todoist_cli/commands.py: the Command classes *)

MsgUsage         == "usage:"
MsgError         == "Error:"
MsgTaskCreated   == "Task created:"
MsgWithSubtasks  == "With n subtasks"
MsgCompleted     == "Task marked as complete!"
MsgPrompt        == "Are you sure you want to delete task? (y/n):"
MsgCancelled     == "Deletion cancelled."
MsgDeleted       == "Task deleted!"
MsgResetCreated  == "Task Reset created successfully!"
MsgNoTasks       == "No tasks found."
MsgTaskTable     == "<table of tasks>"
MsgNoProjects    == "No projects found."
MsgProjectTable  == "<table of projects>"
MsgNoLabels      == "No labels found."
MsgLabelTable    == "<table of labels>"
MsgHelpHeader    == "Todoist CLI - Available commands:"
MsgHelpTable     == "<table of commands>"
MsgHelpExamples  == "Example usage:"

SuccessMessages ==
    {MsgTaskCreated, MsgWithSubtasks, MsgCompleted, MsgDeleted,
     MsgResetCreated, MsgNoTasks, MsgTaskTable, MsgNoProjects,
     MsgProjectTable, MsgNoLabels, MsgLabelTable}

ResetContent == "Task Reset"
ResetSubtasks ==
    << "Capture all tasks", "Prioritise captured tasks",
       "Take action on highest priority tasks" >>

\* What execute() did: the service afterwards, the lines printed, the
\* exception that left it ("none": it returned), the lines it read.
Ran(w, texts, exc, lines) ==
    [world |-> w, out |-> Msgs(texts), raised |-> exc, stdin |-> lines]

\* parser.error(): usage on stderr, then SystemExit(2), which is not an
\* Exception and so passes every `except Exception` of the handlers.
ExitOnParseError(w) == Ran(w, <<MsgUsage>>, "SystemExit(2)", << >>)

\* filters = {}
NoFilters == {}

\* A variant that hands the priority option to the service as a filter.
ListTasksExecute_PriorityFilter(w, args, ok, nonEmpty) ==
    LET p == ParseArgs(ListSchema, args)
        r == GetTasks(w,
                      IF p.priority # 0
                      THEN {[name |-> "priority", value |-> p.priority]}
                      ELSE NoFilters,
                      ok)
    IN  IF ~p.ok THEN ExitOnParseError(w)
        ELSE IF r.raised # "none"
        THEN Ran(r.world, <<MsgError>>, "none", << >>)
        ELSE Ran(r.world, <<IF nonEmpty THEN MsgTaskTable ELSE MsgNoTasks>>,
                 "none", << >>)

\* ListTasksCommand.execute; nonEmpty: whether the service returned tasks
\* that pass the priority filter.
ListTasksExecute(w, args, ok, nonEmpty) ==
    LET p == ParseArgs(ListSchema, args)
        r == GetTasks(w, NoFilters, ok)
    IN  IF ~p.ok THEN ExitOnParseError(w)
        ELSE IF r.raised # "none"
        THEN Ran(r.world, <<MsgError>>, "none", << >>)
        ELSE Ran(r.world, <<IF nonEmpty THEN MsgTaskTable ELSE MsgNoTasks>>,
                 "none", << >>)

\* CreateTaskCommand.execute
CreateTaskExecute(w, args, failAt) ==
    LET p == ParseArgs(CreateSchema, args)
        r == IF p.subtask # << >>
             THEN CreateTaskWithSubtasks(w, p.pos[1], p.subtask, p.priority,
                                         failAt)
             ELSE AddTask(w, p.pos[1], 0, p.priority, failAt # 1)
    IN  IF ~p.ok THEN ExitOnParseError(w)
        ELSE IF r.raised # "none"
        THEN Ran(r.world, <<MsgError>>, "none", << >>)
        ELSE Ran(r.world,
                 IF p.subtask # << >>
                 THEN <<MsgTaskCreated, MsgWithSubtasks>>
                 ELSE <<MsgTaskCreated>>,
                 "none", << >>)

\* CompleteTaskCommand.execute
CompleteTaskExecute(w, args, ok) ==
    LET p == ParseArgs(CompleteSchema, args)
        r == CompleteTask(w, p.pos[1], ok)
    IN  IF ~p.ok THEN ExitOnParseError(w)
        ELSE IF r.raised # "none"
        THEN Ran(r.world, <<MsgError>>, "none", << >>)
        ELSE Ran(r.world, <<MsgCompleted>>, "none", << >>)

\* Mutant: any answer that begins with y or Y confirms.
Confirmed_Prefix(line) == line # << >> /\ Head(Lower(line)) = "y"

\* confirmation.lower() != 'y', negated
Confirmed(line) == Lower(line) = <<"y">>

\* DeleteTaskCommand.execute; input: the line input() returns, None when
\* standard input is at its end (EOFError, caught as an Exception).
DeleteTaskExecute(w, args, ok, input) ==
    LET p == ParseArgs(DeleteSchema, args)
        r == DeleteTask(w, p.pos[1], ok)
        asked == IF p.force THEN << >> ELSE <<MsgPrompt>>
        lines == IF p.force THEN << >> ELSE <<input.v>>
    IN  IF ~p.ok THEN ExitOnParseError(w)
        ELSE IF ~p.force /\ ~input.some
        THEN Ran(w, <<MsgPrompt, MsgError>>, "none", << >>)
        ELSE IF ~p.force /\ ~Confirmed(input.v)
        THEN Ran(w, <<MsgPrompt, MsgCancelled>>, "none", lines)
        ELSE IF r.raised # "none"
        THEN Ran(r.world, asked \o <<MsgError>>, "none", lines)
        ELSE Ran(r.world, asked \o <<MsgDeleted>>, "none", lines)

\* CreateResetTaskCommand.execute: the arguments are not parsed.
CreateResetTaskExecute(w, args, failAt) ==
    LET r == CreateTaskWithSubtasks(w, ResetContent, ResetSubtasks, 0, failAt)
    IN  IF r.raised # "none"
        THEN Ran(r.world, <<MsgError>>, "none", << >>)
        ELSE Ran(r.world, <<MsgResetCreated>>, "none", << >>)

\* ListProjectsCommand.execute: the arguments are not parsed.
ListProjectsExecute(w, args, ok, nonEmpty) ==
    LET r == GetProjects(w, ok)
    IN  IF r.raised # "none"
        THEN Ran(r.world, <<MsgError>>, "none", << >>)
        ELSE Ran(r.world,
                 <<IF nonEmpty THEN MsgProjectTable ELSE MsgNoProjects>>,
                 "none", << >>)

\* ListLabelsCommand.execute: the arguments are not parsed.
ListLabelsExecute(w, args, ok, nonEmpty) ==
    LET r == GetLabels(w, ok)
    IN  IF r.raised # "none"
        THEN Ran(r.world, <<MsgError>>, "none", << >>)
        ELSE Ran(r.world, <<IF nonEmpty THEN MsgLabelTable ELSE MsgNoLabels>>,
                 "none", << >>)

\* CommandRegistry._show_help
ShowHelp(w) ==
    Ran(w, <<MsgHelpHeader, MsgHelpTable, MsgHelpExamples>>, "none", << >>)

\* The TodoistManager the registry was built with (self.todoist).
RegistryClient == "self.todoist"

\* Command.__init__: an instance of a Command class holds a reference to
\* the client it was given.
Instance(cls, todoist) == [cls |-> cls, todoist |-> todoist]

\* Mutant: a name already registered keeps its first handler.
RegisterCommand_KeepFirst(cmds, name, cls) ==
    [n \in DOMAIN cmds \cup {name} |->
        IF n \in DOMAIN cmds THEN cmds[n] ELSE Instance(cls, RegistryClient)]

\* CommandRegistry.register_command: a new instance of the class, built
\* on the registry's client, is stored under the name; a later
\* registration under the same name replaces the earlier one.
RegisterCommand(cmds, name, cls) ==
    [n \in DOMAIN cmds \cup {name} |->
        IF n = name THEN Instance(cls, RegistryClient) ELSE cmds[n]]

\* The registrations of CommandRegistry._register_commands, in order.
Registrations ==
    << <<"list", "ListTasksCommand">>,
       <<"add", "CreateTaskCommand">>,
       <<"complete", "CompleteTaskCommand">>,
       <<"delete", "DeleteTaskCommand">>,
       <<"reset", "CreateResetTaskCommand">>,
       <<"projects", "ListProjectsCommand">>,
       <<"labels", "ListLabelsCommand">>,
       <<"create", "CreateTaskCommand">>,
       <<"create_reset_task", "CreateResetTaskCommand">> >>

RECURSIVE RegisterAll(_, _)
RegisterAll(cmds, regs) ==
    IF regs = << >>
    THEN cmds
    ELSE RegisterAll(RegisterCommand(cmds, Head(regs)[1], Head(regs)[2]),
                     Tail(regs))

NoCommands == [n \in {} |-> "none"]

\* CommandRegistry.__init__
NewRegistry == RegisterAll(NoCommands, Registrations)

\* Mutant: an unregistered name falls through to the list command.
Lookup_DefaultList(cmds, name) ==
    IF name \in DOMAIN cmds THEN cmds[name].cls ELSE "ListTasksCommand"

\* The branch of CommandRegistry.execute_command: the class registered
\* under the name, "help" when the name is not registered.
Lookup(cmds, name) ==
    IF name \in DOMAIN cmds THEN cmds[name].cls ELSE "help"

----------------------------------------------------------------------------
(* main.py: the script *)

MsgNoToken          == "Could not retrieve API token. Exiting."
MsgScriptCreated    == "Created task:"
MsgScriptSubtask    == "  - Added subtask:"
MsgScriptError      == "Error creating task:"
MsgScriptTaskOk     == "Task created successfully!"
MsgScriptNoContent  == "Error: Task content required"
MsgScriptUsage      == "Usage: python main.py create"
MsgScriptHelp       == "Todoist CLI - Available commands (script)"
MsgScriptUnknown    == "Unknown command:"
MsgScriptUnknownTip == "Use 'python main.py help' to see available commands"
MsgScriptRetrieved  == "Retrieved n tasks:"
MsgScriptApiError   == "Error accessing Todoist API:"

\* What a function of the script did: the service afterwards, the lines
\* printed, and whether it returned a task (None otherwise).
Did(w, texts, task) == [world |-> w, out |-> texts, task |-> task]

\* The loop of create_task (main.py), with its print after each subtask.
RECURSIVE ScriptAddSubtasks(_, _, _, _, _, _)
ScriptAddSubtasks(w, subtasks, parent_id, k, failAt, texts) ==
    IF subtasks = << >>
    THEN Did(w, texts, TRUE)
    ELSE LET r == SdkAddTask(w, Head(subtasks), parent_id, 0, failAt # k)
         IN  IF r.raised # "none"
             THEN Did(r.world, Append(texts, MsgScriptError), FALSE)
             ELSE ScriptAddSubtasks(r.world, Tail(subtasks), parent_id, k + 1,
                                    failAt, Append(texts, MsgScriptSubtask))

\* create_task (main.py)
ScriptCreateTask(w, content, subtasks, failAt) ==
    LET p == SdkAddTask(w, content, 0, 0, failAt # 1)
    IN  IF p.raised # "none"
        THEN Did(p.world, <<MsgScriptError>>, FALSE)
        ELSE ScriptAddSubtasks(p.world, subtasks, p.id, 2, failAt,
                               <<MsgScriptCreated>>)

\* get_tasks (main.py)
ScriptGetTasks(w, ok, nonEmpty) ==
    LET r == SdkList(w, "get_tasks", ok)
    IN  IF r.raised # "none"
        THEN Did(r.world, <<MsgScriptApiError>>, FALSE)
        ELSE Did(r.world,
                 <<IF nonEmpty THEN MsgScriptRetrieved ELSE MsgNoTasks>>, TRUE)

----------------------------------------------------------------------------
(* The state machine *)

RECURSIVE SeqsUpTo(_, _)
SeqsUpTo(S, n) ==
    IF n = 0
    THEN {<< >>}
    ELSE LET shorter == SeqsUpTo(S, n - 1)
         IN  shorter \cup {Append(a, t) : a \in shorter, t \in S}

ArgVectors == SeqsUpTo(ArgTokens, MaxArgs)

\* Command names: the registered ones, the script's `help`, an unknown one.
CommandNames == DOMAIN NewRegistry \cup {"help", "frobnicate"}

\* sys.argv[1:]: nothing, or a command name and its arguments.
Argvs == {<< >>} \cup {<<c>> \o a : c \in CommandNames, a \in ArgVectors}

\* Lines input() can return (the line's end is already removed).
StdinLines ==
    { <<"y">>, <<"Y">>, <<"n">>, << >>, <<"y", "e", "s">>, <<"Y", "E", "S">>,
      <<" ", "y">> }

\* What input() can do: return a line, or raise EOFError (None).
StdinInputs == {Some(l) : l \in StdinLines} \cup {None}

\* Remote calls one handler can make: a parent and its subtasks.
MaxCalls == 1 + (IF MaxArgs > Len(ResetSubtasks) THEN MaxArgs ELSE Len(ResetSubtasks))

\* Which call the service fails (0: none).
FailAts == 0..MaxCalls

Init ==
    /\ program \in {"script", "cli"}
    /\ environ \in EnvValues
    /\ token_path \in (IF program = "cli" THEN TokenPaths ELSE {DefaultTokenPath})
    /\ opOutcome = NotRun
    /\ argv = << >>
    /\ pc = "start"
    /\ api_token = None
    /\ lookups = 0
    /\ out = << >>
    /\ world = NewWorld(FirstId)
    /\ stdinLines = << >>
    /\ commands = NoCommands
    /\ registered = << >>
    /\ handler = "none"
    /\ raised = "none"
    /\ exitCode = -1
    /\ HelpersIdle

\* The process ends with the given status.
Exit(code) == pc' = "done" /\ exitCode' = code

\* --- the script, main.py ---

\* Lines 7-23: api_token = get_api_token().  An exception that leaves it
\* is uncaught at module level: traceback, exit status 1.
ScriptGetApiToken ==
    /\ program = "script" /\ pc = "start"
    /\ \E o \in OpOutcomes :
         LET r == ScriptResolve(o)
         IN  /\ opOutcome' = o
             /\ api_token' = r.token
             /\ lookups' = lookups + r.lookups
             /\ out' = out \o r.out
             /\ raised' = r.raised
             /\ IF r.raised # "none"
                THEN Exit(1)
                ELSE pc' = "resolved" /\ UNCHANGED exitCode
    /\ UNCHANGED << helperVars, registered, program, environ, token_path, argv, world, stdinLines,
                    commands, handler >>

\* Mutant: the script goes on without a token.
ScriptCheckToken_NoExit ==
    /\ program = "script" /\ pc = "resolved"
    /\ pc' = "ready"
    /\ UNCHANGED << helperVars, registered, program, environ, token_path, opOutcome, argv, api_token,
                    lookups, out, world, stdinLines, commands, handler,
                    raised, exitCode >>

\* Lines 25-30: if not api_token: exit(1); else api = TodoistAPI(api_token).
ScriptCheckToken ==
    /\ program = "script" /\ pc = "resolved"
    /\ IF ~Truthy(api_token)
       THEN /\ out' = Append(out, Msg(MsgNoToken))
            /\ Exit(1)
       ELSE /\ pc' = "ready"
            /\ UNCHANGED << out, exitCode >>
    /\ UNCHANGED << helperVars, registered, program, environ, token_path, opOutcome, argv, api_token,
                    lookups, world, stdinLines, commands, handler, raised >>

\* What every branch of the script's main block leaves alone.
ScriptFrame ==
    UNCHANGED << helperVars, registered, program, environ, token_path, opOutcome, api_token, lookups,
                 stdinLines, commands, handler, raised >>

\* Mutant: a failed listing ends the script with status 1.
ScriptListTasks_FailExits ==
    /\ program = "script" /\ pc = "ready"
    /\ \E ok \in BOOLEAN, nonEmpty \in BOOLEAN :
         LET d == ScriptGetTasks(world, ok, nonEmpty)
         IN  /\ argv' = << >>
             /\ world' = d.world
             /\ out' = out \o Msgs(d.out)
             /\ Exit(IF d.task THEN 0 ELSE 1)
    /\ ScriptFrame

\* No command: get_tasks().
ScriptListTasks ==
    /\ program = "script" /\ pc = "ready"
    /\ \E ok \in BOOLEAN, nonEmpty \in BOOLEAN :
         LET d == ScriptGetTasks(world, ok, nonEmpty)
         IN  /\ argv' = << >>
             /\ world' = d.world
             /\ out' = out \o Msgs(d.out)
    /\ Exit(0)
    /\ ScriptFrame

\* command == "create_reset_task"
ScriptCreateResetTask ==
    /\ program = "script" /\ pc = "ready"
    /\ \E a \in Argvs, failAt \in FailAts :
         LET d == ScriptCreateTask(world, ResetContent, ResetSubtasks, failAt)
         IN  /\ a # << >> /\ a[1] = "create_reset_task"
             /\ argv' = a
             /\ world' = d.world
             /\ out' = out \o Msgs(d.out) \o
                       (IF d.task THEN <<Msg(MsgResetCreated)>> ELSE << >>)
    /\ Exit(0)
    /\ ScriptFrame

\* command == "create": the content is required; every further argument
\* is a subtask.
ScriptCreate ==
    /\ program = "script" /\ pc = "ready"
    /\ \E a \in Argvs, failAt \in FailAts :
         /\ a # << >> /\ a[1] = "create"
         /\ argv' = a
         /\ IF Len(a) < 2
            THEN /\ out' = out \o Msgs(<<MsgScriptNoContent, MsgScriptUsage>>)
                 /\ Exit(1)
                 /\ UNCHANGED world
            ELSE LET d == ScriptCreateTask(world, a[2],
                                           SubSeq(a, 3, Len(a)), failAt)
                 IN  /\ world' = d.world
                     /\ out' = out \o Msgs(d.out) \o
                               (IF d.task THEN <<Msg(MsgScriptTaskOk)>>
                                ELSE << >>)
                     /\ Exit(0)
    /\ ScriptFrame

\* command == "help"
ScriptHelp ==
    /\ program = "script" /\ pc = "ready"
    /\ \E a \in Argvs :
         /\ a # << >> /\ a[1] = "help"
         /\ argv' = a
    /\ out' = Append(out, Msg(MsgScriptHelp))
    /\ Exit(0)
    /\ UNCHANGED world
    /\ ScriptFrame

\* Any other command.
ScriptUnknown ==
    /\ program = "script" /\ pc = "ready"
    /\ \E a \in Argvs :
         /\ a # << >> /\ a[1] \notin {"create_reset_task", "create", "help"}
         /\ argv' = a
    /\ out' = out \o Msgs(<<MsgScriptUnknown, MsgScriptUnknownTip>>)
    /\ Exit(0)
    /\ UNCHANGED world
    /\ ScriptFrame

\* --- the package, todoist_cli ---

\* token = AuthManager(token_path).get_api_token()
CliResolve ==
    /\ program = "cli" /\ pc = "start"
    /\ \E o \in OpOutcomes :
         LET r == GetApiToken(environ, token_path, o)
         IN  /\ opOutcome' = (IF r.lookups > 0 THEN o ELSE NotRun)
             /\ api_token' = r.token
             /\ lookups' = lookups + r.lookups
             /\ out' = out \o r.out
             /\ raised' = r.raised
    /\ pc' = "resolved"
    /\ UNCHANGED << helperVars, registered, program, environ, token_path, argv, world, stdinLines,
                    commands, handler, exitCode >>

\* The entry point on the resolver's answer: no token is fatal (exit 1,
\* no remote call); with a token the client and the registry are built.
CliCheckToken ==
    /\ program = "cli" /\ pc = "resolved"
    /\ IF ~Truthy(api_token)
       THEN /\ out' = Append(out, Msg(MsgNoToken))
            /\ Exit(1)
            /\ UNCHANGED << commands, registered >>
       ELSE /\ pc' = "ready"
            /\ commands' = NewRegistry
            /\ registered' = Registrations
            /\ UNCHANGED << out, exitCode >>
    /\ UNCHANGED << helperVars, program, environ, token_path, opOutcome, argv, api_token,
                    lookups, world, stdinLines, handler, raised >>

\* The entry point with no command: help, exit 0.
CliNoCommand ==
    /\ program = "cli" /\ pc = "ready"
    /\ argv' = << >>
    /\ out' = out \o ShowHelp(world).out
    /\ Exit(0)
    /\ UNCHANGED << helperVars, registered, program, environ, token_path, opOutcome, api_token,
                    lookups, world, stdinLines, commands, handler, raised >>

\* CommandRegistry.execute_command(a[1], a[2:]) reached the handler of
\* class cls (or the help), which did r.
Executed(a, cls, r) ==
    /\ argv' = a
    /\ handler' = cls
    /\ world' = r.world
    /\ out' = out \o r.out
    /\ stdinLines' = stdinLines \o r.stdin
    /\ raised' = r.raised
    /\ pc' = "returned"
    /\ UNCHANGED << helperVars, registered, program, environ, token_path, opOutcome, api_token,
                    lookups, commands, exitCode >>

\* execute_command would pick the handler of class cls for argv a.
Dispatches(a, cls) ==
    /\ a # << >>
    /\ Lookup(commands, a[1]) = cls

\* The entry point is about to call execute_command.
AtDispatch == program = "cli" /\ pc = "ready"

ArgsOf(a) == SubSeq(a, 2, Len(a))

ExecuteList ==
    /\ AtDispatch
    /\ \E a \in Argvs, ok \in BOOLEAN, nonEmpty \in BOOLEAN :
         /\ Dispatches(a, "ListTasksCommand")
         /\ Executed(a, "ListTasksCommand",
                     ListTasksExecute(world, ArgsOf(a), ok, nonEmpty))

ExecuteCreate ==
    /\ AtDispatch
    /\ \E a \in Argvs, failAt \in FailAts :
         /\ Dispatches(a, "CreateTaskCommand")
         /\ Executed(a, "CreateTaskCommand",
                     CreateTaskExecute(world, ArgsOf(a), failAt))

ExecuteComplete ==
    /\ AtDispatch
    /\ \E a \in Argvs, ok \in BOOLEAN :
         /\ Dispatches(a, "CompleteTaskCommand")
         /\ Executed(a, "CompleteTaskCommand",
                     CompleteTaskExecute(world, ArgsOf(a), ok))

ExecuteDelete ==
    /\ AtDispatch
    /\ \E a \in Argvs, ok \in BOOLEAN, input \in StdinInputs :
         /\ Dispatches(a, "DeleteTaskCommand")
         /\ Executed(a, "DeleteTaskCommand",
                     DeleteTaskExecute(world, ArgsOf(a), ok, input))

ExecuteReset ==
    /\ AtDispatch
    /\ \E a \in Argvs, failAt \in FailAts :
         /\ Dispatches(a, "CreateResetTaskCommand")
         /\ Executed(a, "CreateResetTaskCommand",
                     CreateResetTaskExecute(world, ArgsOf(a), failAt))

ExecuteProjects ==
    /\ AtDispatch
    /\ \E a \in Argvs, ok \in BOOLEAN, nonEmpty \in BOOLEAN :
         /\ Dispatches(a, "ListProjectsCommand")
         /\ Executed(a, "ListProjectsCommand",
                     ListProjectsExecute(world, ArgsOf(a), ok, nonEmpty))

ExecuteLabels ==
    /\ AtDispatch
    /\ \E a \in Argvs, ok \in BOOLEAN, nonEmpty \in BOOLEAN :
         /\ Dispatches(a, "ListLabelsCommand")
         /\ Executed(a, "ListLabelsCommand",
                     ListLabelsExecute(world, ArgsOf(a), ok, nonEmpty))

\* The else branch of execute_command: no handler runs, the help is shown.
ExecuteUnregistered ==
    /\ AtDispatch
    /\ \E a \in Argvs :
         /\ Dispatches(a, "help")
         /\ Executed(a, "none", ShowHelp(world))

\* After execute_command: a normal return ends the process with status 0;
\* a SystemExit that left it ends the process with a non-zero status (2
\* if nothing above catches it, 1 if a top-level handler maps it).
CliExit ==
    /\ program = "cli" /\ pc = "returned"
    /\ IF raised = "none"
       THEN Exit(0)
       ELSE \E code \in {1, 2} : Exit(code)
    /\ UNCHANGED << helperVars, registered, program, environ, token_path, opOutcome, argv, api_token,
                    lookups, out, world, stdinLines, commands, handler,
                    raised >>

Next ==
    \/ ScriptGetApiToken
    \/ ScriptCheckToken
    \/ ScriptListTasks
    \/ ScriptCreateResetTask
    \/ ScriptCreate
    \/ ScriptHelp
    \/ ScriptUnknown
    \/ CliResolve
    \/ CliCheckToken
    \/ CliNoCommand
    \/ ExecuteList
    \/ ExecuteCreate
    \/ ExecuteComplete
    \/ ExecuteDelete
    \/ ExecuteReset
    \/ ExecuteProjects
    \/ ExecuteLabels
    \/ ExecuteUnregistered
    \/ CliExit

Spec == Init /\ [][Next]_vars

----------------------------------------------------------------------------
(* The registry on its own: register_command called any number of times   *)
(* on a registry that CommandRegistry.__init__ has just built.             *)

\* Further register_command calls made after construction, at most.
MaxRegistrations == 3

\* The names and classes the further registrations draw from: a primary
\* name, its alias, another primary name, and a name not yet registered.
RegisterNames == {"add", "create", "reset", "sync"}
RegisterClasses ==
    {"CreateTaskCommand", "CreateResetTaskCommand", "ListTasksCommand"}

\* The state after CommandRegistry(todoist_manager).
InitRegistry ==
    /\ program = "cli"
    /\ environ = Some(<<"e", "1">>)
    /\ token_path = DefaultTokenPath
    /\ opOutcome = NotRun
    /\ argv = << >>
    /\ pc = "registry"
    /\ api_token = Some(<<"e", "1">>)
    /\ lookups = 0
    /\ out = << >>
    /\ world = NewWorld(FirstId)
    /\ stdinLines = << >>
    /\ commands = NewRegistry
    /\ registered = Registrations
    /\ handler = "none"
    /\ raised = "none"
    /\ exitCode = -1
    /\ HelpersIdle

\* registry.register_command(name, cls)
Register ==
    /\ pc = "registry"
    /\ Len(registered) < Len(Registrations) + MaxRegistrations
    /\ \E name \in RegisterNames, cls \in RegisterClasses :
         /\ commands' = RegisterCommand(commands, name, cls)
         /\ registered' = Append(registered, <<name, cls>>)
    /\ UNCHANGED << helperVars, program, environ, token_path, opOutcome, argv, pc,
                    api_token, lookups, out, world, stdinLines, handler,
                    raised, exitCode >>

NextRegistry == Register

SpecRegistry == InitRegistry /\ [][NextRegistry]_vars

----------------------------------------------------------------------------
(* The helper functions on their own.  They are called outside any command *)
(* (CreateTaskCommand calls parse_due_date and drops what it returns), so  *)
(* each is applied once to inputs drawn in the initial state.              *)

processVars == << registered, program, environ, token_path, opOutcome, argv,
                  api_token, lookups, out, world, stdinLines, commands,
                  handler, raised, exitCode >>

\* A process that runs no command, at position `at`.
ProcessIdle(at) ==
    /\ program = "cli"
    /\ environ = None
    /\ token_path = DefaultTokenPath
    /\ opOutcome = NotRun
    /\ argv = << >>
    /\ pc = at
    /\ api_token = None
    /\ lookups = 0
    /\ out = << >>
    /\ world = NewWorld(FirstId)
    /\ stdinLines = << >>
    /\ commands = NoCommands
    /\ registered = << >>
    /\ handler = "none"
    /\ raised = "none"
    /\ exitCode = -1

InitDueDate ==
    /\ ProcessIdle("due")
    /\ today \in Dates
    /\ due_string \in DueStrings
    /\ due = NotParsed
    /\ ConfigIdle

\* TodoistManager.parse_due_date(due_string)
ParseDue ==
    /\ pc = "due"
    /\ due' = ParseDueDate(today, due_string)
    /\ pc' = "due_done"
    /\ UNCHANGED << processVars, configVars, today, due_string >>

NextDueDate == ParseDue

SpecDueDate == InitDueDate /\ [][NextDueDate]_vars

InitConfig ==
    /\ ProcessIdle("cfg_load")
    /\ DueIdle
    /\ config_file \in ConfigFiles
    /\ config = << >>
    /\ saves = << >>
    /\ file_before = config_file

\* config = load_config(path)
Load ==
    /\ pc = "cfg_load"
    /\ Len(saves) < MaxRounds
    /\ config' = LoadConfig(config_file)
    /\ file_before' = config_file
    /\ pc' = "cfg_save"
    /\ UNCHANGED << processVars, dueVars, config_file, saves >>

\* save_config(config, path)
Save ==
    /\ pc = "cfg_save"
    /\ \E outcome \in SaveOutcomes :
          LET r == SaveConfig(config_file, config, outcome)
          IN  /\ config_file' = r.file
              /\ saves' = Append(saves, r.ret)
    /\ pc' = "cfg_load"
    /\ UNCHANGED << processVars, dueVars, config, file_before >>

NextConfig == Load \/ Save

SpecConfig == InitConfig /\ [][NextConfig]_vars

----------------------------------------------------------------------------
(* Properties *)

\* The resolver has answered.
ResolverDone == pc # "start"

\* Token resolution failed.
ResolutionFailed == ResolverDone /\ ~Truthy(api_token)

\* execute_command has been called and is over.
CommandOver == program = "cli" /\ pc \in {"returned", "done"} /\ argv # << >>

\* C1: whenever TODOIST_API_TOKEN is set to a non-empty string,
\* AuthManager.get_api_token resolves to exactly that string, whatever
\* token_path holds and whatever the secret store would answer.
C1_EnvPrecedence ==
    (program = "cli" /\ ResolverDone /\ Truthy(environ))
        => api_token = environ

C1_Witness ==
    /\ program = "cli" /\ pc = "resolved"
    /\ Truthy(environ) /\ token_path = DefaultTokenPath
    /\ api_token = environ

\* C2: a remote call is made only after token resolution succeeded; once
\* resolution has failed the process makes no remote call, never reaches
\* the commands, and ends with a non-zero exit status.
C2_NoRemoteCallWithoutToken ==
    /\ world.calls # << >> => Truthy(api_token)
    /\ ResolutionFailed =>
          /\ world.calls = << >>
          /\ pc \in {"resolved", "done"}
          /\ pc = "done" => exitCode # 0

C2_Witness ==
    /\ program = "script" /\ pc = "done"
    /\ opOutcome.kind = "nonzero" /\ ~Truthy(api_token)
    /\ exitCode = 1 /\ world.calls = << >>

\* C3: with the environment variable unset or empty, a secret-store
\* lookup that fails (binary missing, non-zero exit) is returned by the
\* resolver as "no token"; no exception leaves the resolver.  (Stated for
\* both resolvers; main.py's violates it.)
C3_LookupFailureCaptured ==
    (ResolverDone /\ ~Truthy(environ) /\ lookups > 0
        /\ opOutcome.kind \in {"nonzero", "notfound"})
        => (raised = "none" /\ api_token = None)

\* The same for AuthManager alone, which does capture every failure.
AuthManagerCapturesLookupFailure ==
    (program = "cli" /\ ResolverDone
        /\ opOutcome.kind \in {"nonzero", "notfound"})
        => (raised = "none" /\ api_token = None)

\* C4: AuthManager starts the secret-store lookup exactly when the
\* environment variable is unset or empty and token_path is not empty;
\* with both empty, resolution fails without a lookup.
C4_LookupIffNeeded ==
    (program = "cli" /\ ResolverDone) =>
        /\ lookups = (IF ~Truthy(environ) /\ Len(token_path) > 0
                      THEN 1 ELSE 0)
        /\ (~Truthy(environ) /\ Len(token_path) = 0) => api_token = None

C4_Witness ==
    /\ program = "cli" /\ pc = "resolved"
    /\ ~Truthy(environ) /\ token_path = << >>
    /\ lookups = 0 /\ api_token = None

\* The run created (or tried to create) a task with subtasks: which
\* content and which subtasks it was asked for.
CreateRequest ==
    LET p == ParseArgs(CreateSchema, ArgsOf(argv))
        nothing == [asked |-> FALSE, content |-> "", subtasks |-> << >>]
    IN  IF pc \notin {"returned", "done"} \/ argv = << >> THEN nothing
        ELSE IF program = "cli" /\ handler = "CreateTaskCommand" /\ p.ok
        THEN [asked |-> TRUE, content |-> p.pos[1], subtasks |-> p.subtask]
        ELSE IF \/ program = "cli" /\ handler = "CreateResetTaskCommand"
                \/ program = "script" /\ argv[1] = "create_reset_task"
        THEN [asked |-> TRUE, content |-> ResetContent,
              subtasks |-> ResetSubtasks]
        ELSE IF program = "script" /\ argv[1] = "create" /\ Len(argv) >= 2
        THEN [asked |-> TRUE, content |-> argv[2],
              subtasks |-> SubSeq(argv, 3, Len(argv))]
        ELSE nothing

AllCallsSucceeded == \A i \in DOMAIN world.calls : world.calls[i].ok

\* C5: a task created with n >= 1 subtasks, all calls succeeding: the
\* service receives the parent's creation first, then exactly n subtask
\* creations, in the order given, each carrying as parent_id the
\* identifier the service returned for the parent.
C5_ParentThenSubtasksInOrder ==
    LET q == CreateRequest
        n == Len(q.subtasks)
        c == world.calls
    IN  (q.asked /\ n >= 1 /\ AllCallsSucceeded) =>
            /\ Len(c) = n + 1
            /\ c[1].op = "add_task" /\ c[1].content = q.content
            /\ c[1].parent_id = 0
            /\ \E t \in world.tasks :
                  /\ t.id = FirstId /\ t.content = q.content
                  /\ t.parent_id = 0
                  /\ \A i \in 1..n :
                        /\ c[i + 1].op = "add_task"
                        /\ c[i + 1].content = q.subtasks[i]
                        /\ c[i + 1].parent_id = t.id

C5_Witness ==
    /\ program = "cli" /\ handler = "CreateTaskCommand"
    /\ argv = <<"add", "t1", "--subtask=A", "--subtask=B">>
    /\ AllCallsSucceeded /\ Len(world.calls) = 3
    /\ world.calls[2].content = "A" /\ world.calls[3].content = "B"

\* C6: in a creation with subtasks, a failed parent creation is the only
\* call made; a failed subtask creation is the last call made, nothing
\* but creations is ever sent (no delete, no compensation), and every
\* task whose creation succeeded is still held by the service.
C6_NoSubtasksAfterFailedParentNoRollback ==
    LET q == CreateRequest
        c == world.calls
    IN  q.asked =>
            /\ (c # << >> /\ ~c[1].ok) => Len(c) = 1
            /\ \A i \in DOMAIN c : c[i].op = "add_task"
            /\ \A i \in DOMAIN c : ~c[i].ok => i = Len(c)
            /\ world.deleted = {} /\ world.closed = {}
            /\ \A i \in DOMAIN c :
                  c[i].ok => \E t \in world.tasks :
                                /\ t.id = FirstId + i - 1
                                /\ t.content = c[i].content
                                /\ t.parent_id = c[i].parent_id

C6_Witness ==
    /\ program = "cli" /\ handler = "CreateTaskCommand"
    /\ argv = <<"add", "t1", "--subtask=A", "--subtask=B">>
    /\ Len(world.calls) = 3 /\ ~world.calls[3].ok
    /\ Cardinality(world.tasks) = 2

\* The delete command ran on arguments that parse.
DeleteRan ==
    /\ CommandOver /\ handler = "DeleteTaskCommand"
    /\ ParseArgs(DeleteSchema, ArgsOf(argv)).ok

DeleteArgs == ParseArgs(DeleteSchema, ArgsOf(argv))

\* Exactly one remote call, the deletion of the task named.
OneDeleteFor(id) ==
    /\ Len(world.calls) = 1
    /\ world.calls[1].op = "delete_task" /\ world.calls[1].task_id = id

\* C7: delete <id>.  Without --force, a line other than y or Y leaves
\* the service untouched and prints the cancellation notice; the line y
\* or Y sends exactly one delete for that id.  With --force exactly one
\* delete for that id is sent and standard input is not read.
C7_DeleteConfirmation ==
    DeleteRan =>
        /\ (~DeleteArgs.force /\ stdinLines # << >>
                /\ stdinLines[1] \notin {<<"y">>, <<"Y">>})
              => (world.calls = << >> /\ Printed(MsgCancelled))
        /\ (~DeleteArgs.force /\ stdinLines # << >>
                /\ stdinLines[1] \in {<<"y">>, <<"Y">>})
              => (OneDeleteFor(DeleteArgs.pos[1]) /\ Len(stdinLines) = 1)
        /\ DeleteArgs.force
              => (OneDeleteFor(DeleteArgs.pos[1]) /\ stdinLines = << >>
                    /\ ~Printed(MsgPrompt))

C7_Witness ==
    /\ DeleteRan /\ ~DeleteArgs.force
    /\ stdinLines = << <<"y", "e", "s">> >>
    /\ world.calls = << >> /\ Printed(MsgCancelled)

\* The schema a Command class parses its arguments with (the classes that
\* build no parser accept every argument vector).
SchemaOf(cls) ==
    CASE cls = "ListTasksCommand" -> ListSchema
      [] cls = "CreateTaskCommand" -> CreateSchema
      [] cls = "CompleteTaskCommand" -> CompleteSchema
      [] cls = "DeleteTaskCommand" -> DeleteSchema

\* A handler ran on arguments its parser rejects.
ParseFailed ==
    /\ CommandOver
    /\ handler \in {"ListTasksCommand", "CreateTaskCommand",
                    "CompleteTaskCommand", "DeleteTaskCommand"}
    /\ ~ParseArgs(SchemaOf(handler), ArgsOf(argv)).ok

\* C8: when a handler's arguments fail to parse, the usage text is
\* printed, no remote call is made, execute_command returns normally and
\* the process ends with status 0.
C8_ParseFailureIsNotFatal ==
    ParseFailed =>
        /\ Printed(MsgUsage)
        /\ world.calls = << >>
        /\ raised = "none"
        /\ pc = "done" => exitCode = 0

\* What does hold on a parse failure: usage is printed and no remote call
\* is made, but SystemExit(2) leaves execute_command.
ParseFailureExits ==
    ParseFailed =>
        /\ Printed(MsgUsage)
        /\ world.calls = << >>
        /\ raised = "SystemExit(2)"
        /\ pc = "done" => exitCode # 0

\* C9: a remote call that fails is re-raised by the client to the
\* handler: the handler makes no further call, prints the error, prints
\* no success message, and returns normally, so execute_command raises
\* nothing.  (update_task, which no handler calls, re-raises as well.)
C9_RemoteErrorReachesHandlerAndIsPrinted ==
    /\ UpdateTask(world, "t1", FALSE).raised # "none"
    /\ (CommandOver /\ ~AllCallsSucceeded) =>
          /\ \A i \in DOMAIN world.calls : ~world.calls[i].ok
                                              => i = Len(world.calls)
          /\ Printed(MsgError)
          /\ \A m \in SuccessMessages : ~Printed(m)
          /\ raised = "none"
          /\ pc = "done" => exitCode = 0

C9_Witness ==
    /\ CommandOver /\ handler = "CompleteTaskCommand"
    /\ Len(world.calls) = 1 /\ ~world.calls[1].ok
    /\ Printed(MsgError) /\ raised = "none" /\ pc = "done"

\* C10: execute_command with a name that is not registered shows the
\* full help, runs no handler, makes no remote call, raises nothing, and
\* the process ends with status 0.
C10_UnregisteredCommandShowsHelp ==
    (CommandOver /\ argv[1] \notin DOMAIN commands) =>
        /\ handler = "none"
        /\ Printed(MsgHelpHeader) /\ Printed(MsgHelpTable)
        /\ world.calls = << >>
        /\ raised = "none"
        /\ pc = "done" => exitCode = 0

C10_Witness ==
    /\ CommandOver /\ argv[1] = "frobnicate" /\ handler = "none"
    /\ Printed(MsgHelpTable) /\ pc = "done" /\ exitCode = 0

\* The process ended after being started with a token and no command.
NoCommandOver == pc = "done" /\ Truthy(api_token) /\ argv = << >>

\* C11 as stated: with no command the program shows help, ends with
\* status 0 and makes no remote call.
C11_NoCommandShowsHelp ==
    NoCommandOver =>
        /\ exitCode = 0
        /\ Printed(MsgHelpHeader) \/ Printed(MsgScriptHelp)
        /\ world.calls = << >>

\* C11, amended: with a token resolved and no command the process ends
\* with status 0 and sends no add, update, complete or delete call.  The
\* package shows the help and makes no remote call at all; the script
\* main.py shows no help and lists the tasks instead: exactly one
\* get_tasks call, whose failure is printed and is not fatal.
C11_NoCommandHelpOrListing ==
    NoCommandOver =>
        /\ exitCode = 0
        /\ \A i \in DOMAIN world.calls : world.calls[i].op = "get_tasks"
        /\ program = "cli" =>
              (Printed(MsgHelpHeader) /\ Printed(MsgHelpTable)
                 /\ world.calls = << >>)
        /\ program = "script" =>
              /\ Len(world.calls) = 1
              /\ ~Printed(MsgScriptHelp)
              /\ world.calls[1].ok =>
                    (Printed(MsgScriptRetrieved) \/ Printed(MsgNoTasks))
              /\ ~world.calls[1].ok => Printed(MsgScriptApiError)

C11_Witness ==
    /\ NoCommandOver /\ program = "script" /\ exitCode = 0
    /\ Len(world.calls) = 1 /\ ~world.calls[1].ok
    /\ Printed(MsgScriptApiError)

\* The last registration made under a name.
LatestRegistration(name) ==
    LET at == {i \in DOMAIN registered : registered[i][1] = name}
    IN  registered[CHOOSE i \in at : \A j \in at : j <= i]

OtherTokens == {<<"e", "1">>, <<"s", "1">>, <<"k", "9", "z">>}

\* sub occurs in s.
Contains(s, sub) ==
    \E i \in 1..(Len(s) - Len(sub) + 1) :
        SubSeq(s, i, i + Len(sub) - 1) = sub

\* AuthManager.get_api_token has just returned a token.
TokenJustResolved ==
    program = "cli" /\ pc = "resolved" /\ Truthy(api_token)

\* C13: what AuthManager.get_api_token prints on success does not depend
\* on the token: the same environment with any other token in the place
\* the token came from prints the same lines, no line contains the
\* token, and the lines name the strategy that supplied it (environment
\* variable or secret store, never both).
C13_DiagnosticIndependentOfToken ==
    TokenJustResolved =>
        /\ \A i \in DOMAIN out : ~Contains(out[i].arg, api_token.v)
        /\ Truthy(environ) =>
              /\ Printed(MsgEnvToken) /\ ~Printed(MsgOpToken)
              /\ \A t \in OtherTokens :
                    GetApiToken(Some(t), token_path, opOutcome).out = out
        /\ ~Truthy(environ) =>
              /\ Printed(MsgOpToken) /\ ~Printed(MsgEnvToken)
              /\ \A t \in OtherTokens :
                    GetApiToken(environ, token_path,
                                [kind |-> "ok", stdout |-> Append(t, "\n")]).out
                        = out

C13_Witness ==
    /\ TokenJustResolved /\ Truthy(environ)
    /\ out = <<Say(MsgEnvToken, EnvVarName)>>
    /\ GetApiToken(Some(<<"k", "9", "z">>), token_path, opOutcome).token
          # api_token

(* C14 *)

DueParsed == pc = "due_done"

\* s is t up to the case of its letters (t in lower case).
SameIgnoringCase(s, t) ==
    /\ Len(s) = Len(t)
    /\ \A i \in 1..Len(t) :
          \/ s[i] = t[i]
          \/ \E k \in DOMAIN LowerLetters :
                LowerLetters[k] = t[i] /\ UpperLetters[k] = s[i]

\* toordinal(): days from 0001-01-01 (day 1) to d.
RECURSIVE DaysBeforeMonth(_, _)
DaysBeforeMonth(y, m) ==
    IF m = 1 THEN 0 ELSE DaysBeforeMonth(y, m - 1) + DaysInMonth(y, m - 1)

Ordinal(d) ==
    LET y == d.year - 1
    IN  y * 365 + (y \div 4) - (y \div 100) + (y \div 400)
          + DaysBeforeMonth(d.year, d.month) + d.day

IsIsoDate(s) ==
    /\ Len(s) = 10
    /\ s[5] = "-" /\ s[8] = "-"
    /\ \A i \in {1, 2, 3, 4, 6, 7, 9, 10} :
          \E k \in DOMAIN DigitChars : DigitChars[k] = s[i]

DigitValue(c) == (CHOOSE k \in DOMAIN DigitChars : DigitChars[k] = c) - 1

\* date.fromisoformat(s)
FromIso(s) ==
    [year  |-> DigitValue(s[1]) * 1000 + DigitValue(s[2]) * 100
                 + DigitValue(s[3]) * 10 + DigitValue(s[4]),
     month |-> DigitValue(s[6]) * 10 + DigitValue(s[7]),
     day   |-> DigitValue(s[9]) * 10 + DigitValue(s[10])]

\* The returned date value is the ISO form of a calendar date n days
\* after the current local date.
DueIsDaysAhead(n) ==
    /\ IsIsoDate(due.date)
    /\ ValidDate(FromIso(due.date))
    /\ Ordinal(FromIso(due.date)) = Ordinal(today) + n

\* C14 as stated: parse_due_date maps the string `today` to the current
\* local date, `tomorrow` to the current local date plus one day, and
\* returns every other input string unchanged as the date value.
C14_OnlyLiteralTodayTomorrowMapped ==
    DueParsed =>
        /\ due_string = StrToday => DueIsDaysAhead(0)
        /\ due_string = StrTomorrow => DueIsDaysAhead(1)
        /\ due_string \notin {StrToday, StrTomorrow} => due.date = due_string

\* C14, amended: parse_due_date maps a string that is `today` up to the
\* case of its letters to the current local date, one that is `tomorrow`
\* up to case to the current local date plus one day, and returns every
\* other input string unchanged as the date value.
C14_TodayTomorrowIgnoringCase ==
    DueParsed =>
        /\ SameIgnoringCase(due_string, StrToday) => DueIsDaysAhead(0)
        /\ SameIgnoringCase(due_string, StrTomorrow) => DueIsDaysAhead(1)
        /\ (~SameIgnoringCase(due_string, StrToday)
              /\ ~SameIgnoringCase(due_string, StrTomorrow))
             => due.date = due_string

\* `Tomorrow` on the last day of February of a leap year.
C14_Witness ==
    /\ DueParsed
    /\ today = [year |-> 2024, month |-> 2, day |-> 29]
    /\ due_string = << "T", "o", "m", "o", "r", "r", "o", "w" >>
    /\ due.date = << "2", "0", "2", "4", "-", "0", "3", "-", "0", "1" >>

(* C15 *)

\* save_config(load_config(path), path) has just been applied.
RoundTripDone == pc = "cfg_load" /\ Len(saves) >= 1

\* d1 == d2 on Python dictionaries: the same items, in any order.
DictEqual(d1, d2) ==
    { d1[i] : i \in DOMAIN d1 } = { d2[i] : i \in DOMAIN d2 }

\* The file parses, and to the dictionary d.
ParsesTo(file, d) ==
    /\ JsonLoad(file).ok
    /\ DictEqual(JsonLoad(file).value, d)

AddWithSubtasksRan ==
    /\ CommandOver /\ handler = "CreateTaskCommand"
    /\ ParseArgs(CreateSchema, ArgsOf(argv)).ok
    /\ ParseArgs(CreateSchema, ArgsOf(argv)).subtask # << >>

\* The creation of the k-th subtask was sent and failed.
SubtaskFailed(k) ==
    /\ Len(world.calls) >= k + 1
    /\ ~world.calls[k + 1].ok

\* C16: in the add command with subtasks, if the k-th subtask creation
\* fails, none of the subtasks k+1..n is attempted; the command prints an
\* error and no `Task created` message; the service holds the parent and
\* the first k-1 subtasks, and nothing else.
C16_FailedSubtaskStopsAndReportsError ==
    LET p == ParseArgs(CreateSchema, ArgsOf(argv))
        n == Len(p.subtask)
        c == world.calls
    IN  AddWithSubtasksRan =>
          \A k \in 1..n :
            SubtaskFailed(k) =>
              /\ Len(c) = k + 1
              /\ \A i \in 1..k : c[i].ok
              /\ \A i \in 1..k : c[i + 1].content = p.subtask[i]
              /\ Printed(MsgError)
              /\ ~Printed(MsgTaskCreated) /\ ~Printed(MsgWithSubtasks)
              /\ world.tasks =
                   {[id |-> FirstId, content |-> p.pos[1], parent_id |-> 0]}
                   \cup {[id |-> FirstId + i, content |-> p.subtask[i],
                          parent_id |-> FirstId] : i \in 1..(k - 1)}

\* The first of two subtasks fails: the second is never sent, and the
\* parent is left on the service.
C16_Witness ==
    /\ AddWithSubtasksRan
    /\ ArgsOf(argv) = <<"t1", "--subtask=A", "--subtask=B">>
    /\ SubtaskFailed(1)
    /\ Len(world.calls) = 2
    /\ Cardinality(world.tasks) = 1
    /\ Printed(MsgError)

(* C17 *)

ReadOnlyCommands ==
    {"ListTasksCommand", "ListProjectsCommand", "ListLabelsCommand"}

ListingOf(cls) ==
    CASE cls = "ListTasksCommand" -> "get_tasks"
      [] cls = "ListProjectsCommand" -> "get_projects"
      [] cls = "ListLabelsCommand" -> "get_labels"

\* A read-only command ran.
ReadOnlyRan == CommandOver /\ handler \in ReadOnlyCommands

\* The service received exactly one call, the listing op, with no filter
\* and no other argument.
OneListingCall(op) ==
    /\ Len(world.calls) = 1
    /\ world.calls[1].op = op
    /\ world.calls[1].filters = {}
    /\ world.calls[1].content = "" /\ world.calls[1].task_id = ""
    /\ world.calls[1].parent_id = 0 /\ world.calls[1].priority = 0

\* No add, update, complete or delete call was sent, and the service
\* holds what it held.
RemoteStateUnchanged ==
    /\ \A i \in DOMAIN world.calls :
          world.calls[i].op \notin {"add_task", "update_task", "close_task",
                                    "delete_task"}
    /\ [world EXCEPT !.calls = << >>] = NewWorld(FirstId)

\* C17 as stated: for any argument vector, list issues exactly one
\* task-listing call with no filters, projects exactly one project-listing
\* call, labels exactly one label-listing call, and none of them issues
\* an add, update, complete or delete call.
C17_OneListingCallForAnyArguments ==
    ReadOnlyRan =>
        /\ OneListingCall(ListingOf(handler))
        /\ RemoteStateUnchanged

\* C17, amended: list issues exactly one task-listing call with no
\* filters for an argument vector its parser accepts and no call at all
\* for one it rejects; projects and labels issue exactly one listing call
\* for any argument vector; none of the three issues an add, update,
\* complete or delete call.
C17_OneListingCallWhenArgumentsParse ==
    ReadOnlyRan =>
        /\ (handler = "ListTasksCommand"
              /\ ParseArgs(ListSchema, ArgsOf(argv)).ok)
             => OneListingCall("get_tasks")
        /\ (handler = "ListTasksCommand"
              /\ ~ParseArgs(ListSchema, ArgsOf(argv)).ok)
             => world.calls = << >>
        /\ handler # "ListTasksCommand" => OneListingCall(ListingOf(handler))
        /\ RemoteStateUnchanged

\* list --priority=4: the option parses, and the one call carries no
\* filter.
C17_Witness ==
    /\ ReadOnlyRan /\ handler = "ListTasksCommand"
    /\ ArgsOf(argv) = <<"--priority=4">>
    /\ OneListingCall("get_tasks")
    /\ world.calls[1].ok

====
